---------------------------- MODULE Spec2Model ----------------------------
(***************************************************************************)
(* A model of dcc-rs: the interrupt-driven DCC transmission engine         *)
(* (src/src/lib.rs), the packet codec (src/src/packets.rs,                 *)
(* src/src/packets/mod.rs, src/src/packets/service_mode.rs) and the host   *)
(* integration of the blue-pill example.                                   *)
(***************************************************************************)
EXTENDS Integers, Sequences, FiniteSets, TLC

(***************************************************************************)
(* Program constants (src/src/lib.rs).                                     *)
(***************************************************************************)
BUFFER_SIZE == 24 * 8
ZERO_MICROS == 100
ONE_MICROS == 58

(***************************************************************************)
(* Bounds of the model.                                                    *)
(***************************************************************************)
\* ticks made by test::send_a_packet: 2 + 16 + 16 + 8
MaxTestTicks == 42

\* write() is tried with the bit sequences number 0 .. MaxSeq of the enumeration
\* <<>>, <<0>>, <<1>>, <<0,0>>, <<0,1>>, <<1,0>>, <<1,1>>, <<0,0,0>>, ... (NthBitSeq),
\* and with FullPkt and OverPkt
MaxSeq == 6

VARIABLES
    \* DccInterruptHandler
    write_buffer,       \* BufferType, as the set of the indices of its set bits
    write_buffer_len,   \* usize
    buffer,             \* BufferType: the active buffer
    buffer_num_bits,    \* usize
    state,              \* TxState
    \* the OutputPin: the level the engine drove last ("unset" before the first tick)
    pin,
    \* what the last call returned to its caller
    ret,
    \* observers (history of the calls, no part of the program)
    lastWritten,        \* the bits handed to the most recent successful write()
    replaced,           \* whether that write replaced a staged packet: "none", "same", "diff"
    txCount,            \* transfers into the active buffer since that write
    txPkt,              \* {lastWritten} as it was at the most recent transfer; {} before
    sent,               \* <<level, delay>> of every tick taken in Transmitting since then
    \* test::send_a_packet
    test_bytes,         \* the bytes the test stages
    test_ticks,         \* the ticks the test has made
    \* the host of examples/stm32f103-blue-pill
    TX_BUFFER,          \* Mutex<RefCell<Option<(SerialiseBuffer, usize)>>>
    main_pc,            \* main(): "setup" before the interrupt is unmasked, then "loop"
    irq_pc,             \* TIM2(): "idle" outside the handler, "tick" before its dcc.tick()
    published,          \* observer: the bit sequences main() has handed over so far
    \* the packet codec
    builder,            \* Option: the builder (or constructor arguments) of the packet
    packet,             \* Option: the packet value built
    frame,              \* the data bytes the last serialise call laid out
    ser_buf,            \* the SerialiseBuffer handed to serialise
    ser_ret,            \* what the last serialise call returned
    chain,              \* the builder calls made one by one: whose builder, which
                        \* setters were called, which fields they set, the last result
    \* observer of the wait of a staged packet (no part of the program)
    live                \* writes made, successful ticks the staged packet has waited,
                        \* length of the packet in flight when it was written

engine == <<write_buffer, write_buffer_len, buffer, buffer_num_bits, state>>
observers == <<lastWritten, replaced, txCount, txPkt, sent>>
test == <<test_bytes, test_ticks>>
host == <<TX_BUFFER, main_pc, irq_pc, published>>
codec == <<builder, packet, frame, ser_buf, ser_ret, chain>>
vars == <<write_buffer, write_buffer_len, buffer, buffer_num_bits, state, pin, ret,
          lastWritten, replaced, txCount, txPkt, sent,
          test_bytes, test_ticks, TX_BUFFER, main_pc, irq_pc, published,
          builder, packet, frame, ser_buf, ser_ret, chain, live>>

(***************************************************************************)
(* Values.                                                                 *)
(***************************************************************************)
BitIndex == 0 .. (BUFFER_SIZE - 1)

\* A BufferType (a BitArray of BUFFER_SIZE bits) is held as the set of the indices
\* in BitIndex whose bit is set; Get(b, i) is bit i.
Get(b, i) == i \in b

\* BitArray::default(): every bit clear
BitArrayDefault == {}

\* TxState
Idle(second_half_of_bit) ==
    [tag |-> "Idle", offset |-> 0, second_half_of_bit |-> second_half_of_bit]

Transmitting(offset, second_half_of_bit) ==
    [tag |-> "Transmitting", offset |-> offset, second_half_of_bit |-> second_half_of_bit]

\* Option
None == {}
Some(v) == {v}
Unwrap(o) == CHOOSE v \in o : TRUE
UnwrapOr(o, d) == IF o = None THEN d ELSE Unwrap(o)

\* Result values
Ok(op, val) == [op |-> op, res |-> "Ok", val |-> val]
Err(op, e, val) == [op |-> op, res |-> e, val |-> val]

\* the first n bits of a BufferType, as the sequence buf[..n]
Bits(b, n) == [i \in 1 .. n |-> Get(b, i - 1)]

\* bitvec's view_bits::<Msb0>() of a slice of bytes: bit i of the slice is bit
\* 7 - i % 8 of byte i / 8
view_bits(bytes) ==
    [i \in 1 .. (8 * Len(bytes)) |->
        (bytes[((i - 1) \div 8) + 1] \div (2 ^ (7 - ((i - 1) % 8)))) % 2 = 1]

\* the n-th bit sequence, shortest first: the binary digits of n + 1 after the
\* leading one
RECURSIVE NthBits(_)
NthBits(m) == IF m <= 1 THEN <<>> ELSE Append(NthBits(m \div 2), m % 2 = 1)

NthBitSeq(n) == NthBits(n + 1)

\* a packet that fills the buffer exactly, and one that is one bit too long
FullPkt == [i \in 1 .. BUFFER_SIZE |-> i % 3 = 1]
OverPkt == [i \in 1 .. (BUFFER_SIZE + 1) |-> i % 2 = 1]

\* the arguments tried for write()
Inputs == {NthBitSeq(n) : n \in 0 .. MaxSeq} \cup {FullPkt, OverPkt}


(***************************************************************************)
(* DccInterruptHandler::new                                                *)
(***************************************************************************)
new ==
    /\ write_buffer = BitArrayDefault
    /\ write_buffer_len = 0
    /\ buffer = BitArrayDefault
    /\ buffer_num_bits = 0
    /\ state = Idle(FALSE)
    /\ pin = "unset"
    /\ ret = Ok("new", 0)

NoHistory ==
    /\ lastWritten = <<>>
    /\ replaced = "none"
    /\ txCount = 0
    /\ txPkt = {}
    /\ sent = <<>>

(***************************************************************************)
(* DccInterruptHandler::write                                              *)
(***************************************************************************)
\* (mutant: the capacity check is off by one)
TooLong_OffByOne(buf) == Len(buf) > BUFFER_SIZE + 1

\* buf.len() > BUFFER_SIZE
TooLong(buf) == Len(buf) > BUFFER_SIZE

\* (mutant: the copy sets the one-bits of buf and clears nothing)
CopyFromBitslice_OrIn(dst, buf) ==
    dst \cup {i \in 0 .. (Len(buf) - 1) : buf[i + 1]}

\* self.write_buffer[0..buf.len()].copy_from_bitslice(buf)
CopyFromBitslice(dst, buf) ==
    {i \in dst : i >= Len(buf)} \cup {i \in 0 .. (Len(buf) - 1) : buf[i + 1]}

\* (mutant: an empty write is ignored instead of clearing the staged length)
StagedLen_EmptyKeepsOld(buf) == IF Len(buf) = 0 THEN write_buffer_len ELSE Len(buf)

\* the value write() stores in write_buffer_len
StagedLen(buf) == Len(buf)

\* (mutant: the bits are copied into the active buffer as well)
write_IntoActive(buf) ==
    IF TooLong(buf)
    THEN /\ ret' = Err("write", "TooLong", Len(buf))
         /\ UNCHANGED <<engine, pin, observers>>
    ELSE /\ write_buffer' = CopyFromBitslice(write_buffer, buf)
         /\ write_buffer_len' = StagedLen(buf)
         /\ buffer' = CopyFromBitslice(buffer, buf)
         /\ ret' = Ok("write", Len(buf))
         /\ UNCHANGED <<buffer_num_bits, state, pin>>
         /\ lastWritten' = buf
         /\ replaced' = IF txCount = 0 /\ lastWritten # <<>>
                        THEN (IF lastWritten = buf THEN "same" ELSE "diff")
                        ELSE "none"
         /\ txCount' = 0
         /\ UNCHANGED <<txPkt, sent>>

write(buf) ==
    IF TooLong(buf)
    THEN /\ ret' = Err("write", "TooLong", Len(buf))
         /\ UNCHANGED <<engine, pin, observers>>
    ELSE /\ write_buffer' = CopyFromBitslice(write_buffer, buf)
         /\ write_buffer_len' = StagedLen(buf)
         /\ ret' = Ok("write", Len(buf))
         /\ UNCHANGED <<buffer, buffer_num_bits, state, pin>>
         \* observers
         /\ lastWritten' = buf
         /\ replaced' = IF txCount = 0 /\ lastWritten # <<>>
                        THEN (IF lastWritten = buf THEN "same" ELSE "diff")
                        ELSE "none"
         /\ txCount' = 0
         /\ UNCHANGED <<txPkt, sent>>

(***************************************************************************)
(* DccInterruptHandler::tick                                               *)
(***************************************************************************)
\* (mutant: set_high and set_low are exchanged)
PinLevel_Inverted(second_half_of_bit) == IF second_half_of_bit THEN "low" ELSE "high"

\* set_high() in the second half of a bit, set_low() in the first
PinLevel(second_half_of_bit) == IF second_half_of_bit THEN "high" ELSE "low"

\* (mutant: the two durations are exchanged)
BitClock_Swapped(current_bit) == IF current_bit THEN ZERO_MICROS ELSE ONE_MICROS

\* new_clock of a data bit
BitClock(current_bit) == IF current_bit THEN ONE_MICROS ELSE ZERO_MICROS

\* new_clock of an idle half-bit
IdleClock == ZERO_MICROS

\* (mutant: the length of the active packet is tested instead of the staged one)
LoadsStaged_ActiveLen(second_half_of_bit, staged_len) ==
    second_half_of_bit /\ buffer_num_bits # 0

\* (mutant: the staged packet is loaded in either half of the idle bit)
LoadsStaged_AnyHalf(second_half_of_bit, staged_len) == staged_len # 0

\* the condition under which the staged packet is loaded
LoadsStaged(second_half_of_bit, staged_len) == second_half_of_bit /\ staged_len # 0

\* (mutant: the staged length is not cleared by the transfer)
StagedLenAfterLoad_Kept == write_buffer_len

\* write_buffer_len after the staged packet was loaded
StagedLenAfterLoad == 0

\* (mutant: the end of the packet is found one bit early)
AfterHalfBit_DropLast(offset, second_half_of_bit, num_bits) ==
    IF offset + 1 < num_bits
    THEN Transmitting(offset, ~second_half_of_bit)
    ELSE Idle(FALSE)

\* (mutant: the end of the packet is found one bit late)
AfterHalfBit_OneMore(offset, second_half_of_bit, num_bits) ==
    IF offset <= num_bits
    THEN Transmitting(offset, ~second_half_of_bit)
    ELSE Idle(FALSE)

\* (mutant: the packet's end leads into the second half of the idle bit)
AfterHalfBit_HalfIdle(offset, second_half_of_bit, num_bits) ==
    IF offset < num_bits
    THEN Transmitting(offset, ~second_half_of_bit)
    ELSE Idle(TRUE)

\* the state after a half-bit of the packet: offset is the (incremented) offset
AfterHalfBit(offset, second_half_of_bit, num_bits) ==
    IF offset < num_bits
    THEN Transmitting(offset, ~second_half_of_bit)
    ELSE Idle(FALSE)

\* (mutant: the state has advanced by the time the pin error is returned)
OnPinError_StateAdvanced ==
    /\ state' = [state EXCEPT !.second_half_of_bit = ~@]
    /\ UNCHANGED <<write_buffer, write_buffer_len, buffer, buffer_num_bits, pin, observers>>

\* the engine after a pin error: `?` returns before self.state is assigned
OnPinError ==
    UNCHANGED <<engine, pin, observers>>

tick(pinOk) ==
    IF state.tag = "Idle"
    THEN IF ~pinOk
         THEN /\ ret' = Err("tick", "PinError", 0)
              /\ OnPinError
         ELSE /\ pin' = PinLevel(state.second_half_of_bit)
              /\ ret' = Ok("tick", IdleClock)
              /\ IF LoadsStaged(state.second_half_of_bit, write_buffer_len)
                 THEN /\ buffer' = write_buffer
                      /\ buffer_num_bits' = write_buffer_len
                      /\ write_buffer_len' = StagedLenAfterLoad
                      /\ state' = Transmitting(0, FALSE)
                      /\ UNCHANGED write_buffer
                      \* observers
                      /\ txPkt' = {lastWritten}
                      /\ txCount' = txCount + 1
                      /\ sent' = <<>>
                      /\ UNCHANGED <<lastWritten, replaced>>
                 ELSE /\ state' = Idle(~state.second_half_of_bit)
                      /\ UNCHANGED <<write_buffer, write_buffer_len, buffer,
                                     buffer_num_bits, observers>>
    ELSE IF state.offset >= BUFFER_SIZE
         THEN \* self.buffer.get(offset) is None: unwrap() panics
              /\ ret' = Err("tick", "Panic", 0)
              /\ UNCHANGED <<engine, pin, observers>>
         ELSE IF ~pinOk
              THEN /\ ret' = Err("tick", "PinError", 0)
                   /\ OnPinError
              ELSE LET current_bit == Get(buffer, state.offset)
                       new_clock == BitClock(current_bit)
                       offset == IF state.second_half_of_bit
                                 THEN state.offset + 1
                                 ELSE state.offset
                   IN  /\ pin' = PinLevel(state.second_half_of_bit)
                       /\ ret' = Ok("tick", new_clock)
                       /\ state' = AfterHalfBit(offset, state.second_half_of_bit,
                                                buffer_num_bits)
                       /\ UNCHANGED <<write_buffer, write_buffer_len, buffer,
                                      buffer_num_bits>>
                       \* observers
                       /\ sent' = Append(sent, <<pin', new_clock>>)
                       /\ UNCHANGED <<lastWritten, replaced, txCount, txPkt>>

(***************************************************************************)
(* The engine driven by any caller: any write and any tick, in any order.  *)
(***************************************************************************)
NoTest == test_bytes = <<>> /\ test_ticks = 0

NoHost == TX_BUFFER = None /\ main_pc = "none" /\ irq_pc = "none" /\ published = {}

NoCall == [fn |-> "none", res |-> "none", val |-> 0]

\* no builder is being filled in call by call
NoChain == [kind |-> "none", called |-> {}, ok |-> {}, open |-> FALSE, last |-> NoCall]

NoCodec ==
    /\ builder = None
    /\ packet = None
    /\ frame = <<>>
    /\ ser_buf = {}
    /\ ser_ret = NoCall
    /\ chain = NoChain

\* nothing was written yet
NoLive == live = [writes |-> 0, ticks |-> 0, flight |-> 0]

Init == new /\ NoHistory /\ NoTest /\ NoHost /\ NoCodec /\ NoLive

Write == \E buf \in Inputs : write(buf) /\ UNCHANGED <<test, host, codec, live>>

Tick == \E pinOk \in BOOLEAN : tick(pinOk) /\ UNCHANGED <<test, host, codec, live>>

Next == Write \/ Tick

Spec == Init /\ [][Next]_vars

(***************************************************************************)
(* The transmission engine: claims C1 .. C4, C6, C7 (under Spec).          *)
(***************************************************************************)
engineState == <<write_buffer, write_buffer_len, buffer, buffer_num_bits, state>>

\* a packet has been loaded into the active buffer, and which
Loaded == txPkt # {}
TxPkt == CHOOSE p \in txPkt : TRUE

\* the whole of the packet loaded last has been clocked out
Complete == Loaded /\ Len(sent) = 2 * Len(TxPkt)

\* C1: once a packet of n bits (1 <= n <= 192) has been loaded by the transfer tick,
\* the ticks that follow emit its bits in the order staged, two ticks per bit, pin
\* low on the first and high on the second, both returning 58 for a one-bit and 100
\* for a zero-bit; the engine transmits until 2n such ticks are done, no more and no
\* fewer, and the 2n-th leaves it in Idle{second_half_of_bit: false}.
C1_BitsInOrder ==
    Loaded =>
        LET n == Len(TxPkt)
        IN  /\ n >= 1 /\ n <= 192
            /\ Len(sent) <= 2 * n
            /\ \A i \in 1 .. Len(sent) :
                   sent[i] = << IF i % 2 = 1 THEN "low" ELSE "high",
                                IF TxPkt[(i + 1) \div 2] THEN 58 ELSE 100 >>
            /\ Len(sent) < 2 * n =>
                   state = Transmitting(Len(sent) \div 2, Len(sent) % 2 = 1)
            /\ Len(sent) = 2 * n =>
                   /\ state.tag = "Idle"
                   /\ pin = "high" => state = Idle(FALSE)

\* a packet of 192 bits, the capacity, has been clocked out to its last bit
C1_Witness ==
    /\ txPkt = {FullPkt}
    /\ Len(sent) = 2 * 192
    /\ state = Idle(FALSE)
    /\ pin = "high"

\* C2: last writer wins. The packet in the active buffer is exactly the bit sequence,
\* with its length, of the last write() that succeeded before the transfer, also
\* when that write replaced another staged packet; and the transfer leaves nothing
\* staged behind it (no queue): until the next write the staged length is 0.
C2_LastWriterWins ==
    /\ Loaded => Bits(buffer, buffer_num_bits) = TxPkt
    /\ txCount >= 1 => write_buffer_len = 0

\* write(A), write(B) with B # A and no transfer between them, then B was loaded and
\* clocked out to its end
C2_Witness ==
    /\ replaced = "diff"
    /\ txCount = 1
    /\ Complete
    /\ Len(TxPkt) >= 2

\* C3: a staged packet is transmitted exactly once: there is never a second transfer
\* after the same write (not when the same bits were written twice, not after the
\* packet has been clocked out), only a non-empty write is ever loaded, and once the
\* packet is out the engine is Idle with nothing staged until the next write.
C3_ExactlyOnce ==
    /\ txCount <= 1
    /\ txCount = 1 => lastWritten # <<>>
    /\ (txCount = 1 /\ Complete) => (state.tag = "Idle" /\ write_buffer_len = 0)

\* the same bits were written twice before the transfer, the packet has gone out
\* once, and a whole idle bit has passed since without it being loaded again
C3_Witness ==
    /\ replaced = "same"
    /\ txCount = 1
    /\ Complete
    /\ TxPkt[Len(TxPkt)] = TRUE
    /\ ret = Ok("tick", IdleClock)
    /\ state = Idle(FALSE)
    /\ pin = "high"

\* C4: a write() of more than 192 bits returns TooLong, and a write() that returns
\* TooLong changes nothing: staging buffer and length, active buffer and
\* buffer_num_bits, the transmission state and the pin are as before.
C4_TooLongChangesNothing ==
    [][ /\ (ret'.op = "write" /\ ret'.val > 192) => ret'.res = "TooLong"
        /\ ret'.res = "TooLong" => UNCHANGED <<engineState, pin>>
      ]_vars

\* TooLong was returned while a packet was staged and another was in flight
C4_Witness ==
    /\ ret = Err("write", "TooLong", 193)
    /\ write_buffer_len # 0
    /\ state.tag = "Transmitting"
    /\ state.offset >= 1

\* C6: every successful tick drives the pin to the level opposite to the one the
\* previous successful tick drove (low in the first half of a bit, high in the
\* second), whatever writes and failed ticks lie between them and in whatever state;
\* the first tick after new() drives it low.
C6_EdgeOnEveryTick ==
    [][ (ret'.op = "tick" /\ ret'.res = "Ok") =>
            /\ pin' \in {"low", "high"}
            /\ pin' # pin
            /\ pin = "unset" => pin' = "low"
            /\ pin' = (IF state.second_half_of_bit THEN "high" ELSE "low")
      ]_vars

\* ticks have crossed Idle -> Transmitting and Transmitting -> Idle, and gone on
C6_Witness ==
    /\ Complete
    /\ state = Idle(TRUE)
    /\ pin = "low"
    /\ ret = Ok("tick", IdleClock)

\* C7: a tick whose set_high/set_low fails returns the pin error, and leaves the
\* engine as it was: state, offset, active buffer, buffer_num_bits and the staged
\* packet (which is not consumed).
C7_PinErrorChangesNothing ==
    [][ /\ tick(FALSE) => ret'.res = "PinError"
        /\ ret'.res = "PinError" => UNCHANGED engineState
      ]_vars

\* the pin failed on the tick that would have loaded the staged packet
C7_Witness ==
    /\ ret.res = "PinError"
    /\ state = Idle(TRUE)
    /\ write_buffer_len # 0

(***************************************************************************)
(* test::send_a_packet (src/src/lib.rs): a new engine, one write of the    *)
(* bits of the test's bytes, then ticks on a pin that never fails.         *)
(***************************************************************************)
\* the test's [0x00, 0xff], and other byte strings run the same way
TestVectors == {<<0, 255>>, <<255, 0>>, <<170, 85>>, <<1>>}

TestInit ==
    /\ new /\ NoHistory /\ NoHost /\ NoCodec /\ NoLive
    /\ test_bytes \in TestVectors
    /\ test_ticks = 0

\* dcc.write(buffer).unwrap()
TestWrite ==
    /\ ret.op = "new"
    /\ write(view_bits(test_bytes))
    /\ UNCHANGED <<test, host, codec, live>>

\* dcc.tick().unwrap()
TestTick ==
    /\ ret.op # "new"
    /\ test_ticks < MaxTestTicks
    /\ tick(TRUE)
    /\ test_ticks' = test_ticks + 1
    /\ UNCHANGED <<test_bytes, host, codec, live>>

TestNext == TestWrite \/ TestTick

SpecSendAPacket == TestInit /\ [][TestNext]_vars

\* C5: on a new engine with the 16 bits of [0x00, 0xff] staged, ticks 1 and 2 return
\* the idle period 500, ticks 3 .. 18 return 100 (eight zero-bits), ticks 19 .. 34
\* return 58 (eight one-bits), and every later tick returns 500 again.
C5_SendAPacketDelays ==
    (test_bytes = <<0, 255>> /\ ret.op = "tick") =>
        ret = Ok("tick", IF test_ticks <= 2 THEN 500
                         ELSE IF test_ticks <= 18 THEN 100
                         ELSE IF test_ticks <= 34 THEN 58
                         ELSE 500)

(***************************************************************************)
(* u8 arithmetic.                                                          *)
(***************************************************************************)
RECURSIVE BitAnd(_, _)
BitAnd(a, b) ==
    IF a = 0 \/ b = 0 THEN 0
    ELSE (a % 2) * (b % 2) + 2 * BitAnd(a \div 2, b \div 2)

RECURSIVE BitOr(_, _)
BitOr(a, b) ==
    IF a = 0 THEN b
    ELSE IF b = 0 THEN a
    ELSE (IF a % 2 = 1 \/ b % 2 = 1 THEN 1 ELSE 0) + 2 * BitOr(a \div 2, b \div 2)

RECURSIVE BitXor(_, _)
BitXor(a, b) ==
    IF a = 0 THEN b
    ELSE IF b = 0 THEN a
    ELSE ((a + b) % 2) + 2 * BitXor(a \div 2, b \div 2)

\* a << n and a >> n on u8
Shl(a, n) == (a * (2 ^ n)) % 256
Shr(a, n) == a \div (2 ^ n)

(***************************************************************************)
(* SerialiseBuffer (src/src/packets.rs): BitArr!(for 43, in u8, Msb0), six *)
(* bytes of storage; held, like BufferType, as the set of its set bits.    *)
(***************************************************************************)
SerialiseBufferDefault == {}

\* buf[start .. start + bits.len()].copy_from_bitslice(bits)
CopyBits(buf, start, bits) ==
    {i \in buf : i < start \/ i >= start + Len(bits)}
        \cup {start + (j - 1) : j \in {k \in 1 .. Len(bits) : bits[k]}}

\* buf.set(pos, value)
SetBit(buf, pos, value) == IF value THEN buf \cup {pos} ELSE buf \ {pos}

(***************************************************************************)
(* SpeedAndDirection and its builder (src/src/packets.rs).                 *)
(***************************************************************************)
\* SpeedAndDirectionBuilder::default()
SpeedAndDirectionBuilderDefault ==
    [address |-> None, speed |-> None, e_stop |-> FALSE, direction |-> None]

\* (mutant: the upper bound of the address is off by one)
SpeedAndDirectionBuilder_address_Accepts128(b, address) ==
    IF address = 0 \/ address > 128
    THEN [builder |-> b, err |-> "InvalidAddress"]
    ELSE [builder |-> [b EXCEPT !.address = Some(address)], err |-> ""]

\* the setters: [builder, err], err = "" on success
SpeedAndDirectionBuilder_address(b, address) ==
    IF address = 0 \/ address > 127
    THEN [builder |-> b, err |-> "InvalidAddress"]
    ELSE [builder |-> [b EXCEPT !.address = Some(address)], err |-> ""]

\* (mutant: the upper bound of the speed is off by one)
SpeedAndDirectionBuilder_speed_Accepts29(b, speed) ==
    IF speed > 29
    THEN [builder |-> b, err |-> "InvalidSpeed"]
    ELSE [builder |-> [b EXCEPT !.speed = Some(speed)], err |-> ""]

SpeedAndDirectionBuilder_speed(b, speed) ==
    IF speed > 28
    THEN [builder |-> b, err |-> "InvalidSpeed"]
    ELSE [builder |-> [b EXCEPT !.speed = Some(speed)], err |-> ""]

SpeedAndDirectionBuilder_direction(b, direction) ==
    [b EXCEPT !.direction = Some(direction)]

SpeedAndDirectionBuilder_e_stop(b, e_stop) ==
    [b EXCEPT !.e_stop = e_stop]

\* (mutant: the offset is not added)
BiasedSpeed_NoBias(speed_opt) ==
    IF speed_opt = None THEN 0 ELSE Unwrap(speed_opt)

\* the speed with "the weird offset" added
BiasedSpeed(speed_opt) ==
    IF speed_opt = None \/ speed_opt = Some(0) THEN 0 ELSE Unwrap(speed_opt) + 3

\* (mutant: e-stop is or-ed over the speed bits instead of replacing them)
SpeedAndDirectionInstruction_EStopOverSpeed(b) ==
    LET speed == BiasedSpeed(b.speed)
        typ == 64
        dir == IF UnwrapOr(b.direction, "Forward") = "Forward"
               THEN BitOr(typ, 32)
               ELSE typ
        withSpeed == BitOr(BitOr(dir, BitAnd(Shr(speed, 1), 15)),
                           Shl(BitAnd(speed, 1), 4))
    IN  IF b.e_stop THEN BitOr(withSpeed, 1) ELSE withSpeed

\* the instruction byte
SpeedAndDirectionInstruction(b) ==
    LET speed == BiasedSpeed(b.speed)
        typ == 64
        dir == IF UnwrapOr(b.direction, "Forward") = "Forward"
               THEN BitOr(typ, 32)
               ELSE typ
    IN  IF b.e_stop
        THEN BitOr(dir, 1)
        ELSE BitOr(BitOr(dir, BitAnd(Shr(speed, 1), 15)), Shl(BitAnd(speed, 1), 4))

\* the checksum byte
SpeedAndDirectionEcc(address, instruction) == BitXor(address, instruction)

\* (mutant: an unset address falls back to 0)
SpeedAndDirectionBuilder_build_Address0(b) ==
    LET address == UnwrapOr(b.address, 0)
        instruction == SpeedAndDirectionInstruction(b)
    IN  [address |-> address,
         instruction |-> instruction,
         ecc |-> SpeedAndDirectionEcc(address, instruction)]

SpeedAndDirectionBuilder_build(b) ==
    LET address == UnwrapOr(b.address, 3)
        instruction == SpeedAndDirectionInstruction(b)
    IN  [address |-> address,
         instruction |-> instruction,
         ecc |-> SpeedAndDirectionEcc(address, instruction)]

\* (mutant: the start bit of the instruction byte is not written)
SpeedAndDirection_serialise_NoDataStartBit(pkt, buf) ==
    LET b1 == CopyBits(buf, 0, view_bits(<<255, 254>>))
        b2 == SetBit(b1, 15, FALSE)
        b3 == CopyBits(b2, 16, view_bits(<<pkt.address>>))
        b5 == CopyBits(b3, 25, view_bits(<<pkt.instruction>>))
        b6 == SetBit(b5, 33, FALSE)
        b7 == CopyBits(b6, 34, view_bits(<<pkt.ecc>>))
        b8 == SetBit(b7, 42, TRUE)
    IN  [buf |-> b8, ret |-> 43]

\* SpeedAndDirection::serialise: [buf, ret]
SpeedAndDirection_serialise(pkt, buf) ==
    LET b1 == CopyBits(buf, 0, view_bits(<<255, 254>>))
        b2 == SetBit(b1, 15, FALSE)
        b3 == CopyBits(b2, 16, view_bits(<<pkt.address>>))
        b4 == SetBit(b3, 24, FALSE)
        b5 == CopyBits(b4, 25, view_bits(<<pkt.instruction>>))
        b6 == SetBit(b5, 33, FALSE)
        b7 == CopyBits(b6, 34, view_bits(<<pkt.ecc>>))
        b8 == SetBit(b7, 42, TRUE)
    IN  [buf |-> b8, ret |-> 43]

(***************************************************************************)
(* The host of examples/stm32f103-blue-pill/src/main.rs: main() and the    *)
(* TIM2 interrupt that preempts it. The handler runs to its end before     *)
(* main() goes on; main()'s store into TX_BUFFER is a critical section.    *)
(***************************************************************************)
LOCO_ADDR == 2

\* readings of the 12-bit ADC tried by the main loop
HostControls == {0, 1600, 3300}

\* (speed, direction) of a reading
ControlSpeed(control) ==
    IF control <= 1600 THEN BitAnd(28 - (control \div 57), 31)
    ELSE IF control >= 2495 THEN BitAnd((control - 2494) \div 57, 31)
    ELSE 0

ControlDirection(control) == IF control <= 1600 THEN "Backward" ELSE "Forward"

\* builder().address(a).unwrap().speed(s).unwrap().direction(d).build(), serialised
\* into SerialiseBuffer::default(): the pair (buffer, len)
HostPacket(address, speed, direction) ==
    LET b1 == SpeedAndDirectionBuilder_address(SpeedAndDirectionBuilderDefault, address)
        b2 == SpeedAndDirectionBuilder_speed(b1.builder, speed)
        b3 == SpeedAndDirectionBuilder_direction(b2.builder, direction)
        ser == SpeedAndDirection_serialise(SpeedAndDirectionBuilder_build(b3),
                                           SerialiseBufferDefault)
    IN  <<ser.buf, ser.ret>>

\* (mutant: the store is not atomic; the first bytes of the new buffer land on what
\* the slot held)
TxBufferStore_Torn(pair) ==
    IF TX_BUFFER = None
    THEN Some(pair)
    ELSE Some(<<{i \in pair[1] : i < 32} \cup {i \in Unwrap(TX_BUFFER)[1] : i >= 32},
                pair[2]>>)

\* the pair of each reading, and the first pair
LoopPackets ==
    [control \in HostControls |->
        HostPacket(LOCO_ADDR, ControlSpeed(control), ControlDirection(control))]

FirstPacket == HostPacket(10, 14, "Forward")

\* the value main() stores into TX_BUFFER
TxBufferStore(pair) == Some(pair)

\* &new_data[..len]
TxBufferSlice(new_data, len) == Bits(new_data, len)

HostInit ==
    /\ new /\ NoHistory /\ NoTest /\ NoCodec /\ NoLive
    /\ TX_BUFFER = None
    /\ main_pc = "setup"
    /\ irq_pc = "idle"
    /\ published = {}

\* main() up to the unmasking of TIM2: the first pair is written directly
MainSetup ==
    /\ main_pc = "setup"
    /\ LET pair == FirstPacket
       IN  /\ write(Bits(pair[1], pair[2]))
           /\ published' = published \cup {Bits(pair[1], pair[2])}
    /\ main_pc' = "loop"
    /\ UNCHANGED <<test, codec, live, TX_BUFFER, irq_pc>>

\* one turn of main()'s loop
MainPublish ==
    /\ main_pc = "loop"
    /\ irq_pc = "idle"
    /\ \E control \in HostControls :
           LET pair == LoopPackets[control]
           IN  /\ TX_BUFFER' = TxBufferStore(pair)
               /\ published' = published \cup {Bits(pair[1], pair[2])}
    /\ UNCHANGED <<engine, pin, ret, observers, test, codec, live, main_pc, irq_pc>>

\* TIM2(), to before dcc.tick(): the slot is emptied and what it held is written
TIM2_take ==
    /\ main_pc = "loop"
    /\ irq_pc = "idle"
    /\ TX_BUFFER' = None
    /\ IF TX_BUFFER # None
       THEN LET new_data == Unwrap(TX_BUFFER)[1]
                len == Unwrap(TX_BUFFER)[2]
            IN  /\ write(TxBufferSlice(new_data, len))
                /\ irq_pc' = IF TooLong(TxBufferSlice(new_data, len))
                             THEN "panic"
                             ELSE "tick"
       ELSE /\ irq_pc' = "tick"
            /\ UNCHANGED <<engine, pin, ret, observers>>
    /\ UNCHANGED <<test, codec, live, main_pc, published>>

\* the rest of TIM2(): dcc.tick(); the pin of the example cannot fail
TIM2_tick ==
    /\ irq_pc = "tick"
    /\ tick(TRUE)
    /\ irq_pc' = "idle"
    /\ UNCHANGED <<test, codec, live, TX_BUFFER, main_pc, published>>

HostNext == MainSetup \/ MainPublish \/ TIM2_take \/ TIM2_tick

SpecHost == HostInit /\ [][HostNext]_vars

\* C8: with the host's discipline (whole (buffer, len) pairs go into TX_BUFFER in a
\* critical section, TIM2 takes the pair out and calls write() and then tick()),
\* under every interleaving the packet in the active buffer is, in all its bits and
\* in its length, one packet that main() has handed over, and every half-bit
\* clocked out so far is a half-bit of that one packet.
C8_NoTornPacket ==
    Loaded =>
        \E p \in published :
            /\ buffer_num_bits = Len(p)
            /\ Bits(buffer, buffer_num_bits) = p
            /\ Len(sent) <= 2 * Len(p)
            /\ \A i \in 1 .. Len(sent) :
                   sent[i][2] = (IF p[(i + 1) \div 2] THEN 58 ELSE 100)

\* a packet published while another was being clocked out, after a third had been
\* published and replaced in the slot, has itself been clocked out to its end
C8_Witness ==
    /\ Complete
    /\ Cardinality(published) >= 3
    /\ TxPkt # Bits(FirstPacket[1], 43)
    /\ TX_BUFFER # None
    /\ TX_BUFFER # Some(<<{i \in 0 .. 42 : TxPkt[i + 1]}, 43>>)

(***************************************************************************)
(* The generic frame assembler (src/src/packets/mod.rs).                   *)
(***************************************************************************)
MAX_BITS == 43

\* the bits of storage of a SerialiseBuffer: six bytes
SerialiseBufferBits == 8 * ((MAX_BITS + 7) \div 8)

\* required_bits
RequiredBits(n) == 15 + n * 9 + 1

\* (mutant: the start bit of a byte is not written)
FrameByte_NoStartBit(buf, pos, byte) ==
    CopyBits(buf, pos + 1, view_bits(<<byte>>))

\* one turn of the loop: the start bit at pos, then the byte
FrameByte(buf, pos, byte) ==
    CopyBits(SetBit(buf, pos, FALSE), pos + 1, view_bits(<<byte>>))

\* for byte in data { ... }, from position pos
RECURSIVE FrameBytes(_, _, _)
FrameBytes(buf, pos, data) ==
    IF data = <<>>
    THEN buf
    ELSE FrameBytes(FrameByte(buf, pos, Head(data)), pos + 9, Tail(data))

\* (mutant: the preamble is written before the length is checked)
serialise_PreambleFirst(data, buf) ==
    LET preamble == CopyBits(buf, 0, view_bits(<<255, 254>>))
    IN  IF RequiredBits(Len(data)) > MAX_BITS
        THEN [buf |-> preamble, res |-> "TooLong", val |-> 0]
        ELSE LET bytes == FrameBytes(preamble, 15, data)
                 pos == 15 + 9 * Len(data)
             IN  [buf |-> SetBit(bytes, pos, TRUE), res |-> "Ok", val |-> pos + 1]

\* serialise(data, buf): [buf, res, val]
serialise(data, buf) ==
    IF RequiredBits(Len(data)) > MAX_BITS
    THEN [buf |-> buf, res |-> "TooLong", val |-> 0]
    ELSE LET preamble == CopyBits(buf, 0, view_bits(<<255, 254>>))
             bytes == FrameBytes(preamble, 15, data)
             pos == 15 + 9 * Len(data)
         IN  [buf |-> SetBit(bytes, pos, TRUE), res |-> "Ok", val |-> pos + 1]

(***************************************************************************)
(* The service-mode packets (src/src/packets/service_mode.rs).             *)
(***************************************************************************)
\* PagePreset::serialise
PagePresetData == <<125, 1, 124>>

\* FactoryReset::serialise
FactoryResetData == <<127, 8, 119>>

\* InstructionBuilder
InstructionBuilderDefault == [cv_address |-> None, typ |-> None]

\* (mutant: the CV number is stored as it is)
InstructionBuilder_cv_address_NoOffset(b, cv_address) ==
    IF 0 < cv_address /\ cv_address < 1024
    THEN [builder |-> [b EXCEPT !.cv_address = Some(cv_address)], err |-> ""]
    ELSE [builder |-> b, err |-> "InvalidAddress"]

InstructionBuilder_cv_address(b, cv_address) ==
    IF 0 < cv_address /\ cv_address < 1024
    THEN [builder |-> [b EXCEPT !.cv_address = Some(cv_address - 1)], err |-> ""]
    ELSE [builder |-> b, err |-> "InvalidAddress"]

\* InstructionType: the fields a variant lacks are left FALSE or 0
WriteCvByte(value) == [t |-> "WriteCvByte", offset |-> 0, bit |-> FALSE, value |-> value]
VerifyCvByte(value) == [t |-> "VerifyCvByte", offset |-> 0, bit |-> FALSE, value |-> value]
WriteCvBit(offset, bit) == [t |-> "WriteCvBit", offset |-> offset, bit |-> bit, value |-> 0]
VerifyCvBit(offset, bit) == [t |-> "VerifyCvBit", offset |-> offset, bit |-> bit, value |-> 0]

InstructionBuilder_write_byte(b, value) == [b EXCEPT !.typ = Some(WriteCvByte(value))]

InstructionBuilder_verify_byte(b, value) == [b EXCEPT !.typ = Some(VerifyCvByte(value))]

\* (mutant: the bound of the offset is off by one)
InstructionBuilder_write_bit_Accepts8(b, offset, bit) ==
    IF offset < 9
    THEN [builder |-> [b EXCEPT !.typ = Some(WriteCvBit(offset, bit))], err |-> ""]
    ELSE [builder |-> b, err |-> "InvalidOffset"]

InstructionBuilder_write_bit(b, offset, bit) ==
    IF offset < 8
    THEN [builder |-> [b EXCEPT !.typ = Some(WriteCvBit(offset, bit))], err |-> ""]
    ELSE [builder |-> b, err |-> "InvalidOffset"]

InstructionBuilder_verify_bit(b, offset, bit) ==
    IF offset < 8
    THEN [builder |-> [b EXCEPT !.typ = Some(VerifyCvBit(offset, bit))], err |-> ""]
    ELSE [builder |-> b, err |-> "InvalidOffset"]

\* (mutant: a missing CV address falls back to 0)
InstructionBuilder_build_DefaultAddress(b) ==
    IF b.typ = None
    THEN [packet |-> None, err |-> "MissingField"]
    ELSE [packet |-> Some([kind |-> "Instruction", typ |-> Unwrap(b.typ),
                           cv_address |-> UnwrapOr(b.cv_address, 0)]),
          err |-> ""]

\* build(): [packet, err]
InstructionBuilder_build(b) ==
    IF b.typ = None \/ b.cv_address = None
    THEN [packet |-> None, err |-> "MissingField"]
    ELSE [packet |-> Some([kind |-> "Instruction", typ |-> Unwrap(b.typ),
                           cv_address |-> Unwrap(b.cv_address)]),
          err |-> ""]

\* value as u8
BoolAsU8(v) == IF v THEN 1 ELSE 0

\* (mutant: the data byte is left out of the checksum)
InstructionChecksum_NoData(type_and_start_of_address, rest_of_address, data) ==
    BitXor(type_and_start_of_address, rest_of_address)

\* the fourth byte
InstructionChecksum(type_and_start_of_address, rest_of_address, data) ==
    BitXor(BitXor(type_and_start_of_address, rest_of_address), data)

\* (mutant: the type bits of the two byte operations are exchanged)
InstructionData_ByteTypesSwapped(pkt) ==
    LET start == BitOr(112, Shr(pkt.cv_address, 8) % 256)
        rest_of_address == BitAnd(pkt.cv_address, 255) % 256
        type_and_start_of_address ==
            CASE pkt.typ.t = "WriteCvBit" -> BitOr(start, 8)
              [] pkt.typ.t = "VerifyCvBit" -> BitOr(start, 8)
              [] pkt.typ.t = "WriteCvByte" -> BitOr(start, 4)
              [] pkt.typ.t = "VerifyCvByte" -> BitOr(start, 12)
        data ==
            CASE pkt.typ.t = "WriteCvBit" ->
                     BitOr(BitOr(240, pkt.typ.offset), Shl(BoolAsU8(pkt.typ.bit), 3))
              [] pkt.typ.t = "VerifyCvBit" ->
                     BitOr(BitOr(224, pkt.typ.offset), Shl(BoolAsU8(pkt.typ.bit), 3))
              [] pkt.typ.t = "WriteCvByte" -> pkt.typ.value
              [] pkt.typ.t = "VerifyCvByte" -> pkt.typ.value
    IN  <<type_and_start_of_address, rest_of_address, data,
          InstructionChecksum(type_and_start_of_address, rest_of_address, data)>>

\* Instruction::serialise: the bytes handed to serialise
InstructionData(pkt) ==
    LET start == BitOr(112, Shr(pkt.cv_address, 8) % 256)
        rest_of_address == BitAnd(pkt.cv_address, 255) % 256
        type_and_start_of_address ==
            CASE pkt.typ.t = "WriteCvBit" -> BitOr(start, 8)
              [] pkt.typ.t = "VerifyCvBit" -> BitOr(start, 8)
              [] pkt.typ.t = "WriteCvByte" -> BitOr(start, 12)
              [] pkt.typ.t = "VerifyCvByte" -> BitOr(start, 4)
        data ==
            CASE pkt.typ.t = "WriteCvBit" ->
                     BitOr(BitOr(240, pkt.typ.offset), Shl(BoolAsU8(pkt.typ.bit), 3))
              [] pkt.typ.t = "VerifyCvBit" ->
                     BitOr(BitOr(224, pkt.typ.offset), Shl(BoolAsU8(pkt.typ.bit), 3))
              [] pkt.typ.t = "WriteCvByte" -> pkt.typ.value
              [] pkt.typ.t = "VerifyCvByte" -> pkt.typ.value
    IN  <<type_and_start_of_address, rest_of_address, data,
          InstructionChecksum(type_and_start_of_address, rest_of_address, data)>>

\* AddressOnly::write and AddressOnly::verify: [packet, err]
AddressOnly_write(address) ==
    IF address < 127
    THEN [packet |-> Some([kind |-> "AddressOnly", variant |-> "Write",
                           address |-> address]),
          err |-> ""]
    ELSE [packet |-> None, err |-> "InvalidAddress"]

AddressOnly_verify(address) ==
    IF address < 127
    THEN [packet |-> Some([kind |-> "AddressOnly", variant |-> "Verify",
                           address |-> address]),
          err |-> ""]
    ELSE [packet |-> None, err |-> "InvalidAddress"]

\* AddressOnly::serialise
AddressOnlyData(pkt) ==
    LET instr == IF pkt.variant = "Write" THEN BitOr(112, 8) ELSE 112
    IN  <<instr, pkt.address, BitXor(instr, pkt.address)>>

\* PhysicalRegisterBuilder
PhysicalRegisterBuilderDefault == [operation |-> None, register |-> None, value |-> None]

PhysicalRegisterBuilder_operation(b, operation) ==
    [b EXCEPT !.operation = Some(operation)]

PhysicalRegisterBuilder_register(b, register) ==
    IF 1 < register /\ register <= 8
    THEN [builder |-> [b EXCEPT !.register = Some(register - 1)], err |-> ""]
    ELSE [builder |-> b, err |-> "InvalidAddress"]

PhysicalRegisterBuilder_value(b, value) == [b EXCEPT !.value = Some(value)]

PhysicalRegisterBuilder_build(b) ==
    IF b.operation = None \/ b.register = None \/ b.value = None
    THEN [packet |-> None, err |-> "MissingField"]
    ELSE [packet |-> Some([kind |-> "PhysicalRegister",
                           operation |-> Unwrap(b.operation),
                           register |-> Unwrap(b.register),
                           value |-> Unwrap(b.value)]),
          err |-> ""]

\* PhysicalRegister::serialise
PhysicalRegisterData(pkt) ==
    LET op == IF pkt.operation = "Write" THEN BitOr(112, 8) ELSE 112
        instr == BitOr(op, pkt.register)
    IN  <<instr, pkt.value, BitXor(instr, pkt.value)>>

\* AddressQuery::address
AddressQuery_address(address) == [kind |-> "AddressQuery", address |-> address]

\* AddressQuery::serialise
AddressQueryData(pkt) == <<pkt.address, 249, BitXor(pkt.address, 249)>>

\* DecoderLockBuilder
DecoderLockBuilderDefault == [address |-> None]

DecoderLockBuilder_address(b, address) ==
    IF address < 127
    THEN [builder |-> [b EXCEPT !.address = Some(address)], err |-> ""]
    ELSE [builder |-> b, err |-> "InvalidAddress"]

DecoderLockBuilder_build(b) ==
    IF b.address = None
    THEN [packet |-> None, err |-> "MissingField"]
    ELSE [packet |-> Some([kind |-> "DecoderLock", address |-> Unwrap(b.address)]),
          err |-> ""]

\* DecoderLock::serialise
DecoderLockData(pkt) == <<0, 249, pkt.address, BitXor(pkt.address, 249)>>

\* the bytes a packet's serialise lays out, by the packet's type
PacketData(pkt) ==
    CASE pkt.kind = "SpeedAndDirection" -> <<pkt.address, pkt.instruction, pkt.ecc>>
      [] pkt.kind = "Instruction" -> InstructionData(pkt)
      [] pkt.kind = "AddressOnly" -> AddressOnlyData(pkt)
      [] pkt.kind = "PhysicalRegister" -> PhysicalRegisterData(pkt)
      [] pkt.kind = "AddressQuery" -> AddressQueryData(pkt)
      [] pkt.kind = "DecoderLock" -> DecoderLockData(pkt)
      [] pkt.kind = "PagePreset" -> PagePresetData
      [] pkt.kind = "FactoryReset" -> FactoryResetData

\* <packet>.serialise(buf): [buf, res, val]
Packet_serialise(pkt, buf) ==
    IF pkt.kind = "SpeedAndDirection"
    THEN LET r == SpeedAndDirection_serialise(pkt, buf)
         IN  [buf |-> r.buf, res |-> "Ok", val |-> r.ret]
    ELSE serialise(PacketData(pkt), buf)

(***************************************************************************)
(* The codec driven by a caller: a packet of any kind is made from any     *)
(* accepted field values and serialised into a clean or a used buffer, and *)
(* the frame assembler is called with any bytes.  The functions are pure, *)
(* so a behaviour is one caller's one packet: made, then serialised.       *)
(***************************************************************************)
\* longest byte string handed to the frame assembler
MaxData == 4

\* byte values tried where not every byte is
ByteSamples == {0, 1, 85, 128, 170, 255}

\* CV numbers tried
CvSamples == {1, 2, 48, 255, 256, 257, 298, 512, 513, 1023}

AllBytes == 0 .. 255

\* the byte strings handed to the frame assembler: every single byte, and the
\* strings of sample bytes
ByteSeqs(n) == UNION {[1 .. k -> ByteSamples] : k \in 0 .. n}
FrameInputs == ByteSeqs(MaxData) \cup {<<b>> : b \in AllBytes}

\* a SerialiseBuffer::default(), and one with every bit set
BufInputs == {SerialiseBufferDefault, 0 .. (SerialiseBufferBits - 1)}

Directions == {"Forward", "Backward"}
Operations == {"Verify", "Write"}

\* the caller holds a buffer, clean or used
CodecInit ==
    /\ new /\ NoHistory /\ NoTest /\ NoHost /\ NoLive
    /\ builder = None
    /\ packet = None
    /\ frame = <<>>
    /\ ser_buf \in BufInputs
    /\ ser_ret = NoCall
    /\ chain = NoChain

\* the caller has made no call yet
Fresh == packet = None /\ ser_ret = NoCall /\ chain = NoChain

\* a packet comes to be, with the buffer it will be serialised into
Made(b, pkt) ==
    /\ builder' = b
    /\ packet' = pkt
    /\ frame' = <<>>
    /\ ser_buf' \in BufInputs
    /\ ser_ret' = NoCall
    /\ UNCHANGED <<engine, pin, ret, observers, test, host, live, chain>>

MakeSpeedAndDirection ==
    /\ Fresh
    /\ \E address \in 1 .. 127, speed \in 0 .. 28, direction \in Directions,
          e_stop \in BOOLEAN :
           LET b1 == SpeedAndDirectionBuilder_address(SpeedAndDirectionBuilderDefault,
                                                      address)
               b2 == SpeedAndDirectionBuilder_speed(b1.builder, speed)
               b3 == SpeedAndDirectionBuilder_direction(b2.builder, direction)
               b4 == SpeedAndDirectionBuilder_e_stop(b3, e_stop)
               pkt == SpeedAndDirectionBuilder_build(b4)
           IN  /\ b1.err = "" /\ b2.err = ""
               /\ Made(Some(b4), Some([kind |-> "SpeedAndDirection",
                                       address |-> pkt.address,
                                       instruction |-> pkt.instruction,
                                       ecc |-> pkt.ecc]))

MakeInstructionByte ==
    /\ Fresh
    /\ \E cv \in CvSamples, value \in ByteSamples, is_write \in BOOLEAN :
           LET b1 == InstructionBuilder_cv_address(InstructionBuilderDefault, cv)
               b2 == IF is_write
                     THEN InstructionBuilder_write_byte(b1.builder, value)
                     ELSE InstructionBuilder_verify_byte(b1.builder, value)
               built == InstructionBuilder_build(b2)
           IN  /\ b1.err = "" /\ built.err = ""
               /\ Made(Some(b2), built.packet)

MakeInstructionBit ==
    /\ Fresh
    /\ \E cv \in CvSamples, offset \in 0 .. 7, bit \in BOOLEAN, is_write \in BOOLEAN :
           LET b1 == InstructionBuilder_cv_address(InstructionBuilderDefault, cv)
               b2 == IF is_write
                     THEN InstructionBuilder_write_bit(b1.builder, offset, bit)
                     ELSE InstructionBuilder_verify_bit(b1.builder, offset, bit)
               built == InstructionBuilder_build(b2.builder)
           IN  /\ b1.err = "" /\ b2.err = "" /\ built.err = ""
               /\ Made(Some(b2.builder), built.packet)

MakeAddressOnly ==
    /\ Fresh
    /\ \E address \in AllBytes, is_write \in BOOLEAN :
           LET made == IF is_write THEN AddressOnly_write(address)
                                ELSE AddressOnly_verify(address)
           IN  /\ made.err = ""
               /\ Made(Some([address |-> address]), made.packet)

MakePhysicalRegister ==
    /\ Fresh
    /\ \E operation \in Operations, register \in AllBytes, value \in ByteSamples :
           LET b1 == PhysicalRegisterBuilder_operation(PhysicalRegisterBuilderDefault,
                                                       operation)
               b2 == PhysicalRegisterBuilder_register(b1, register)
               b3 == PhysicalRegisterBuilder_value(b2.builder, value)
               built == PhysicalRegisterBuilder_build(b3)
           IN  /\ b2.err = "" /\ built.err = ""
               /\ Made(Some(b3), built.packet)

MakeAddressQuery ==
    /\ Fresh
    /\ \E address \in AllBytes :
           Made(Some([address |-> address]), Some(AddressQuery_address(address)))

MakeDecoderLock ==
    /\ Fresh
    /\ \E address \in AllBytes :
           LET b1 == DecoderLockBuilder_address(DecoderLockBuilderDefault, address)
               built == DecoderLockBuilder_build(b1.builder)
           IN  /\ b1.err = "" /\ built.err = ""
               /\ Made(Some(b1.builder), built.packet)

MakePagePreset == Fresh /\ Made(None, Some([kind |-> "PagePreset"]))

MakeFactoryReset == Fresh /\ Made(None, Some([kind |-> "FactoryReset"]))

\* pkt.serialise(&mut buf)
SerialisePacket ==
    /\ packet # None
    /\ ser_ret = NoCall
    /\ LET r == Packet_serialise(Unwrap(packet), ser_buf)
       IN  /\ frame' = PacketData(Unwrap(packet))
           /\ ser_buf' = r.buf
           /\ ser_ret' = [fn |-> Unwrap(packet).kind, res |-> r.res, val |-> r.val]
    /\ UNCHANGED <<engine, pin, ret, observers, test, host, live, builder, packet, chain>>

\* serialise(data, &mut buf) of packets/mod.rs, called with any bytes
FrameCall ==
    /\ Fresh
    /\ \E data \in FrameInputs :
           LET r == serialise(data, ser_buf)
           IN  /\ frame' = data
               /\ ser_buf' = r.buf
               /\ ser_ret' = [fn |-> "serialise", res |-> r.res, val |-> r.val]
    /\ builder' = None
    /\ packet' = None
    /\ UNCHANGED <<engine, pin, ret, observers, test, host, live, chain>>

(***************************************************************************)
(* The builders driven call by call: a builder is created, its setters are *)
(* called in any order with valid and invalid arguments, each at most      *)
(* once, and build() ends the chain.  On a new builder a setter is tried   *)
(* with every value of its argument's type; later calls take their         *)
(* arguments from the boundary values, and a chain goes on to more setters *)
(* only from boundary values.                                              *)
(***************************************************************************)
\* largest CV number tried below u16::MAX
MaxCv == 1030

AddressSamples == {0, 1, 35, 126, 127, 128}
SpeedSamples == {0, 1, 14, 28, 29}
CvArgSamples == {0, 1, 1023, 1024}
OffsetSamples == {0, 7, 8}
RegisterSamples == {0, 1, 2, 8, 9}
ValueSamples == {0, 170}
CvInputs == (0 .. MaxCv) \cup {2 ^ 16 - 1}

\* the arguments tried by the next setter call
ArgsOf(all, samples) == IF chain.called = {} THEN all ELSE samples

BuilderKinds == {"SpeedAndDirection", "Instruction", "PhysicalRegister", "DecoderLock"}

\* <Packet>::builder()
BuilderDefault(kind) ==
    CASE kind = "SpeedAndDirection" -> SpeedAndDirectionBuilderDefault
      [] kind = "Instruction" -> InstructionBuilderDefault
      [] kind = "PhysicalRegister" -> PhysicalRegisterBuilderDefault
      [] kind = "DecoderLock" -> DecoderLockBuilderDefault

Builder_new ==
    /\ Fresh
    /\ \E kind \in BuilderKinds :
           /\ builder' = Some(BuilderDefault(kind))
           /\ chain' = [kind |-> kind, called |-> {}, ok |-> {}, open |-> TRUE,
                        last |-> NoCall]
    /\ UNCHANGED <<engine, pin, ret, observers, test, host, live, packet, frame, ser_buf,
                   ser_ret>>

\* a setter of the builder of this kind may be called
MayCall(kind, setter) ==
    /\ chain.kind = kind
    /\ chain.open
    /\ setter \notin chain.called

\* the call setter(val) returned r = [builder, err]; field is what it sets
Called(setter, field, r, val, sampled) ==
    /\ builder' = Some(r.builder)
    /\ chain' = [chain EXCEPT !.called = @ \cup {setter},
                              !.ok = IF r.err = "" THEN @ \cup {field} ELSE @,
                              !.open = sampled,
                              !.last = [fn |-> setter,
                                        res |-> IF r.err = "" THEN "Ok" ELSE r.err,
                                        val |-> val]]
    /\ UNCHANGED <<engine, pin, ret, observers, test, host, live, packet, frame, ser_buf,
                   ser_ret>>

\* a setter that cannot fail
Infallible(b) == [builder |-> b, err |-> ""]

Call_SpeedAndDirectionBuilder_address ==
    /\ MayCall("SpeedAndDirection", "address")
    /\ \E address \in ArgsOf(AllBytes, AddressSamples) :
           Called("address", "address",
                  SpeedAndDirectionBuilder_address(Unwrap(builder), address),
                  address, address \in AddressSamples)

Call_SpeedAndDirectionBuilder_speed ==
    /\ MayCall("SpeedAndDirection", "speed")
    /\ \E speed \in ArgsOf(AllBytes, SpeedSamples) :
           Called("speed", "speed",
                  SpeedAndDirectionBuilder_speed(Unwrap(builder), speed),
                  speed, speed \in SpeedSamples)

Call_SpeedAndDirectionBuilder_direction ==
    /\ MayCall("SpeedAndDirection", "direction")
    /\ \E direction \in Directions :
           Called("direction", "direction",
                  Infallible(SpeedAndDirectionBuilder_direction(Unwrap(builder),
                                                                direction)),
                  0, TRUE)

Call_SpeedAndDirectionBuilder_e_stop ==
    /\ MayCall("SpeedAndDirection", "e_stop")
    /\ \E e_stop \in BOOLEAN :
           Called("e_stop", "e_stop",
                  Infallible(SpeedAndDirectionBuilder_e_stop(Unwrap(builder), e_stop)),
                  BoolAsU8(e_stop), TRUE)

Call_InstructionBuilder_cv_address ==
    /\ MayCall("Instruction", "cv_address")
    /\ \E cv_address \in ArgsOf(CvInputs, CvArgSamples) :
           Called("cv_address", "cv_address",
                  InstructionBuilder_cv_address(Unwrap(builder), cv_address),
                  cv_address, cv_address \in CvArgSamples)

Call_InstructionBuilder_write_byte ==
    /\ MayCall("Instruction", "write_byte")
    /\ \E value \in ValueSamples :
           Called("write_byte", "typ",
                  Infallible(InstructionBuilder_write_byte(Unwrap(builder), value)),
                  value, TRUE)

Call_InstructionBuilder_verify_byte ==
    /\ MayCall("Instruction", "verify_byte")
    /\ \E value \in ValueSamples :
           Called("verify_byte", "typ",
                  Infallible(InstructionBuilder_verify_byte(Unwrap(builder), value)),
                  value, TRUE)

Call_InstructionBuilder_write_bit ==
    /\ MayCall("Instruction", "write_bit")
    /\ \E offset \in ArgsOf(AllBytes, OffsetSamples), value \in BOOLEAN :
           Called("write_bit", "typ",
                  InstructionBuilder_write_bit(Unwrap(builder), offset, value),
                  offset, offset \in OffsetSamples)

Call_InstructionBuilder_verify_bit ==
    /\ MayCall("Instruction", "verify_bit")
    /\ \E offset \in ArgsOf(AllBytes, OffsetSamples), value \in BOOLEAN :
           Called("verify_bit", "typ",
                  InstructionBuilder_verify_bit(Unwrap(builder), offset, value),
                  offset, offset \in OffsetSamples)

Call_PhysicalRegisterBuilder_operation ==
    /\ MayCall("PhysicalRegister", "operation")
    /\ \E operation \in Operations :
           Called("operation", "operation",
                  Infallible(PhysicalRegisterBuilder_operation(Unwrap(builder),
                                                               operation)),
                  0, TRUE)

Call_PhysicalRegisterBuilder_register ==
    /\ MayCall("PhysicalRegister", "register")
    /\ \E register \in ArgsOf(AllBytes, RegisterSamples) :
           Called("register", "register",
                  PhysicalRegisterBuilder_register(Unwrap(builder), register),
                  register, register \in RegisterSamples)

Call_PhysicalRegisterBuilder_value ==
    /\ MayCall("PhysicalRegister", "value")
    /\ \E value \in ValueSamples :
           Called("value", "value",
                  Infallible(PhysicalRegisterBuilder_value(Unwrap(builder), value)),
                  value, TRUE)

Call_DecoderLockBuilder_address ==
    /\ MayCall("DecoderLock", "address")
    /\ \E address \in AllBytes :
           Called("address", "address",
                  DecoderLockBuilder_address(Unwrap(builder), address),
                  address, TRUE)

\* build() may be called: once, and it ends the chain
MayBuild(kind) ==
    /\ chain.kind = kind
    /\ "build" \notin chain.called

\* build() returned r = [packet, err]
Built(r) ==
    /\ packet' = r.packet
    /\ chain' = [chain EXCEPT !.called = @ \cup {"build"},
                              !.open = FALSE,
                              !.last = [fn |-> "build",
                                        res |-> IF r.err = "" THEN "Ok" ELSE r.err,
                                        val |-> 0]]
    /\ UNCHANGED <<engine, pin, ret, observers, test, host, live, builder, frame, ser_buf,
                   ser_ret>>

Call_SpeedAndDirectionBuilder_build ==
    /\ MayBuild("SpeedAndDirection")
    /\ LET pkt == SpeedAndDirectionBuilder_build(Unwrap(builder))
       IN  Built([packet |-> Some([kind |-> "SpeedAndDirection",
                                   address |-> pkt.address,
                                   instruction |-> pkt.instruction,
                                   ecc |-> pkt.ecc]),
                  err |-> ""])

Call_InstructionBuilder_build ==
    /\ MayBuild("Instruction")
    /\ Built(InstructionBuilder_build(Unwrap(builder)))

Call_PhysicalRegisterBuilder_build ==
    /\ MayBuild("PhysicalRegister")
    /\ Built(PhysicalRegisterBuilder_build(Unwrap(builder)))

Call_DecoderLockBuilder_build ==
    /\ MayBuild("DecoderLock")
    /\ Built(DecoderLockBuilder_build(Unwrap(builder)))

CodecNext ==
    \/ MakeSpeedAndDirection
    \/ MakeInstructionByte
    \/ MakeInstructionBit
    \/ MakeAddressOnly
    \/ MakePhysicalRegister
    \/ MakeAddressQuery
    \/ MakeDecoderLock
    \/ MakePagePreset
    \/ MakeFactoryReset
    \/ SerialisePacket
    \/ FrameCall
    \/ Builder_new
    \/ Call_SpeedAndDirectionBuilder_address
    \/ Call_SpeedAndDirectionBuilder_speed
    \/ Call_SpeedAndDirectionBuilder_direction
    \/ Call_SpeedAndDirectionBuilder_e_stop
    \/ Call_SpeedAndDirectionBuilder_build
    \/ Call_InstructionBuilder_cv_address
    \/ Call_InstructionBuilder_write_byte
    \/ Call_InstructionBuilder_verify_byte
    \/ Call_InstructionBuilder_write_bit
    \/ Call_InstructionBuilder_verify_bit
    \/ Call_InstructionBuilder_build
    \/ Call_PhysicalRegisterBuilder_operation
    \/ Call_PhysicalRegisterBuilder_register
    \/ Call_PhysicalRegisterBuilder_value
    \/ Call_PhysicalRegisterBuilder_build
    \/ Call_DecoderLockBuilder_address
    \/ Call_DecoderLockBuilder_build

SpecCodec == CodecInit /\ [][CodecNext]_vars

\* the last call went through the frame assembler of packets/mod.rs
ThroughAssembler == ser_ret.fn \notin {"none", "SpeedAndDirection"}

\* bit n (0 the least significant) of a byte
ByteBit(byte, n) == (byte \div (2 ^ n)) % 2 = 1

\* C9: for every data of k bytes that fits (16 + 9k <= 43), the frame assembler
\* succeeds and returns 16 + 9k; the buffer then holds one-bits at 0 .. 14, for the
\* j-th byte (j = 0 .. k-1) a 0 start bit at 15 + 9j and the byte's eight bits, most
\* significant first, at 16 + 9j .. 23 + 9j, and a 1 stop bit at 15 + 9k.
C9_FrameLayout ==
    LET k == Len(frame)
    IN  (ThroughAssembler /\ 16 + 9 * k <= 43) =>
            /\ ser_ret.res = "Ok"
            /\ ser_ret.val = 16 + 9 * k
            /\ \A i \in 0 .. 14 : i \in ser_buf
            /\ \A j \in 0 .. (k - 1) :
                   /\ (15 + 9 * j) \notin ser_buf
                   /\ \A n \in 0 .. 7 :
                          ((16 + 9 * j + n) \in ser_buf) = ByteBit(frame[j + 1], 7 - n)
            /\ (15 + 9 * k) \in ser_buf

\* three bytes framed into a buffer that had every bit set, by a direct call
C9_Witness ==
    /\ ser_ret = [fn |-> "serialise", res |-> "Ok", val |-> 43]
    /\ frame = <<85, 0, 170>>
    /\ \A i \in 43 .. 47 : i \in ser_buf

\* C10: the bytes any packet's serialise lays out, the trailing checksum byte
\* included, XOR to zero: in each of the eight bit positions an even number of the
\* bytes has the bit set.
C10_ChecksumZero ==
    (packet # None /\ ser_ret # NoCall) =>
        /\ Len(frame) >= 3
        /\ \A n \in 0 .. 7 :
               Cardinality({j \in 1 .. Len(frame) : ByteBit(frame[j], n)}) % 2 = 0

\* an Instruction packet (four bytes, with a data byte that is not 0) was serialised
C10_Witness ==
    /\ packet # None
    /\ ser_ret.fn = "Instruction"
    /\ Len(frame) = 4
    /\ frame[3] = 170
    /\ frame[4] # 0

\* a packet was built and its serialise has returned
Serialised == packet # None /\ ser_ret # NoCall

\* C11: every packet that can be constructed serialises successfully: the
\* three-byte kinds return 43 and the four-byte kinds (Instruction, DecoderLock)
\* return 52.  (The code returns TooLong for the four-byte kinds.)
C11_BuiltPacketsSerialise ==
    Serialised =>
        /\ ser_ret.res = "Ok"
        /\ ser_ret.val = IF Unwrap(packet).kind \in {"Instruction", "DecoderLock"}
                         THEN 52
                         ELSE 43

\* C12: a call of the frame assembler with data whose frame does not fit the
\* buffer's 43 bits returns TooLong, and a call that returns TooLong leaves every
\* bit of the destination buffer as it was before the call.
C12_TooLongWritesNothing ==
    [][(ser_ret' # ser_ret /\ ser_ret'.fn # "SpeedAndDirection") =>
           /\ (16 + 9 * Len(frame') > 43) => ser_ret'.res = "TooLong"
           /\ ser_ret'.res = "TooLong" => ser_buf' = ser_buf]_vars

\* four bytes were handed to the frame assembler with a buffer that had every bit
\* set: TooLong, and every bit is still set
C12_Witness ==
    /\ ser_ret.fn = "serialise"
    /\ ser_ret.res = "TooLong"
    /\ Len(frame) = 4
    /\ ser_buf = 0 .. (SerialiseBufferBits - 1)

\* the byte read back from bits start .. start + 7 of a buffer, first bit highest
DecodeByte(buf, start) ==
    LET bit(i) == IF (start + i) \in buf THEN 2 ^ (7 - i) ELSE 0
    IN  bit(0) + bit(1) + bit(2) + bit(3) + bit(4) + bit(5) + bit(6) + bit(7)

\* the fields of an instruction byte 01 D S SSSS
DirBit(instruction) == (instruction \div 32) % 2
LowSpeedBit(instruction) == (instruction \div 16) % 2
HighSpeedBits(instruction) == instruction % 16

\* the speed an instruction byte carries: bits 3..0 above bit 4, the bias taken off
DecodeSpeed(instruction) ==
    LET v == 2 * HighSpeedBits(instruction) + LowSpeedBit(instruction)
    IN  IF v = 0 THEN 0 ELSE v - 3

\* a SpeedAndDirection packet has been built
BuiltSpeedAndDirection ==
    /\ packet # None
    /\ Unwrap(packet).kind = "SpeedAndDirection"

C14_InstructionEncoding ==
    BuiltSpeedAndDirection =>
        LET b == Unwrap(builder)
            pkt == Unwrap(packet)
            S == LowSpeedBit(pkt.instruction)
            SSSS == HighSpeedBits(pkt.instruction)
        IN  /\ pkt.instruction \div 64 = 1
            /\ b.direction = Some("Forward") => DirBit(pkt.instruction) = 1
            /\ b.direction = Some("Backward") => DirBit(pkt.instruction) = 0
            /\ b.e_stop => (S = 0 /\ SSSS = 1)
            /\ (~b.e_stop /\ b.speed \in {None, Some(0)}) => (S = 0 /\ SSSS = 0)
            /\ (~b.e_stop /\ b.speed \notin {None, Some(0)}) =>
                   /\ S = (Unwrap(b.speed) + 3) % 2
                   /\ SSSS = (Unwrap(b.speed) + 3) \div 2
                   /\ SSSS # 1
            /\ (~b.e_stop /\ b.speed = Some(1)) => (S = 0 /\ SSSS = 2)
            /\ (~b.e_stop /\ b.speed = Some(28)) => (S = 1 /\ SSSS = 15)
            /\ (~b.e_stop /\ b.address = Some(35) /\ b.speed = Some(14)
                    /\ b.direction = Some("Forward")) =>
                   (pkt.instruction = 120 /\ pkt.ecc = 91)

\* built with e_stop set over a speed of 28, the setters called one by one
C14_Witness ==
    /\ BuiltSpeedAndDirection
    /\ chain.kind = "SpeedAndDirection"
    /\ Unwrap(builder).e_stop
    /\ Unwrap(builder).speed = Some(28)

\* the last call was this setter of this builder, made on its own
LastCall(kind, setter) == chain.kind = kind /\ chain.last.fn = setter

C16_Address127Refused ==
    LastCall("SpeedAndDirection", "address") =>
        LET a == chain.last.val
        IN  /\ a \in {0, 127} => chain.last.res = "InvalidAddress"
            /\ chain.last.res = "Ok" <=> (1 <= a /\ a <= 126)

Required(kind) ==
    CASE kind = "SpeedAndDirection" -> {"address", "speed", "direction"}
      [] kind = "Instruction" -> {"cv_address", "typ"}
      [] kind = "PhysicalRegister" -> {"operation", "register", "value"}
      [] kind = "DecoderLock" -> {"address"}

\* build() has returned
BuildReturned == chain.last.fn = "build"

\* C18 as stated: build() on any of the four builders returns MissingField when a
\* required field was never set by a successful setter call, and a packet when
\* all are set.  (SpeedAndDirectionBuilder::build() returns a packet regardless.)
C18_MissingField ==
    BuildReturned =>
        IF Required(chain.kind) \subseteq chain.ok
        THEN chain.last.res = "Ok" /\ packet # None
        ELSE chain.last.res = "MissingField" /\ packet = None

\* C18 amended: build() on InstructionBuilder, PhysicalRegisterBuilder and
\* DecoderLockBuilder returns MissingField when a required field was never set by
\* a successful setter call and a packet when all are set;
\* SpeedAndDirectionBuilder::build() always returns a packet.
C18_MissingFieldAmended ==
    BuildReturned =>
        IF chain.kind = "SpeedAndDirection" \/ Required(chain.kind) \subseteq chain.ok
        THEN chain.last.res = "Ok" /\ packet # None
        ELSE chain.last.res = "MissingField" /\ packet = None

\* an InstructionBuilder whose only cv_address call failed, its type set: MissingField
C18_Witness ==
    /\ BuildReturned
    /\ chain.kind = "Instruction"
    /\ "cv_address" \in chain.called
    /\ chain.ok = {"typ"}
    /\ chain.last.res = "MissingField"

\* C19: SpeedAndDirectionBuilder::build() never fails; a field that was not set
\* falls back to its default (address 3, speed 0, direction Forward, e_stop
\* false), and a builder with no setter called yields address 3, instruction
\* 0b0110_0000, checksum 3 XOR 0b0110_0000 = 99.
C19_BuildDefaults ==
    (BuildReturned /\ chain.kind = "SpeedAndDirection") =>
        /\ chain.last.res = "Ok"
        /\ packet # None
        /\ LET pkt == Unwrap(packet)
               S == LowSpeedBit(pkt.instruction)
               SSSS == HighSpeedBits(pkt.instruction)
           IN  /\ "address" \notin chain.ok => pkt.address = 3
               /\ "direction" \notin chain.ok => DirBit(pkt.instruction) = 1
               /\ "e_stop" \notin chain.ok => ~(SSSS = 1)
               /\ ("speed" \notin chain.ok /\ "e_stop" \notin chain.ok) =>
                      (S = 0 /\ SSSS = 0)
               /\ chain.ok = {} =>
                      (pkt.address = 3 /\ pkt.instruction = 96 /\ pkt.ecc = 99)

\* build() on a builder no setter was called on
C19_Witness ==
    /\ BuildReturned
    /\ chain.kind = "SpeedAndDirection"
    /\ chain.called = {"build"}
    /\ packet # None

\* the 10-bit CV address in the bytes of an Instruction: the low two bits of the
\* first byte above the second byte
FrameCvAddress == (frame[1] % 4) * 256 + frame[2]

\* C20: InstructionBuilder::cv_address(c) succeeds exactly when 1 <= c <= 1023 and
\* then stores c - 1; 0, 1024 and every larger value return InvalidAddress; the
\* 10-bit address in the bytes the packet serialises to is the stored c - 1 (CV 1
\* -> address 0, CV 1023 -> address 1022).
C20_CvAddress ==
    /\ LastCall("Instruction", "cv_address") =>
           LET c == chain.last.val
           IN  IF 1 <= c /\ c <= 1023
               THEN /\ chain.last.res = "Ok"
                    /\ Unwrap(builder).cv_address = Some(c - 1)
               ELSE /\ chain.last.res = "InvalidAddress"
                    /\ Unwrap(builder).cv_address = None
    /\ (Serialised /\ Unwrap(packet).kind = "Instruction") =>
           /\ Unwrap(builder).cv_address # None
           /\ FrameCvAddress = Unwrap(Unwrap(builder).cv_address)
           /\ FrameCvAddress <= 1022

\* cv_address(1023), a type, build() and serialise, call by call: address 1022
C20_Witness ==
    /\ Serialised
    /\ Unwrap(packet).kind = "Instruction"
    /\ chain.kind = "Instruction"
    /\ FrameCvAddress = 1022

\* C21: InstructionBuilder::write_bit(offset, v) and verify_bit(offset, v)
\* succeed exactly when offset is in 0..7, choosing the bit operation with that
\* offset, and return InvalidOffset for offset >= 8, leaving the builder, with the
\* operation an earlier successful call chose, as it was.
C21_BitOffset ==
    [][(chain' # chain /\ chain'.kind = "Instruction"
            /\ chain'.last.fn \in {"write_bit", "verify_bit"}) =>
           LET offset == chain'.last.val
               typ == Unwrap(builder').typ
           IN  IF offset <= 7
               THEN /\ chain'.last.res = "Ok"
                    /\ typ # None
                    /\ Unwrap(typ).t = (IF chain'.last.fn = "write_bit"
                                        THEN "WriteCvBit"
                                        ELSE "VerifyCvBit")
                    /\ Unwrap(typ).offset = offset
               ELSE /\ chain'.last.res = "InvalidOffset"
                    /\ builder' = builder]_vars

\* write_bit(8, _) was refused after a write_byte(0xaa), which is still the
\* operation chosen
C21_Witness ==
    /\ LastCall("Instruction", "write_bit")
    /\ chain.last.val = 8
    /\ chain.last.res = "InvalidOffset"
    /\ Unwrap(builder).typ = Some(WriteCvByte(170))

\* C22: PhysicalRegisterBuilder::register(r) succeeds exactly when 1 <= r <= 8
\* and then stores r - 1 (register 1 -> 0, register 8 -> 7); every other value
\* returns InvalidAddress.  (The code refuses register 1.)
C22_RegisterRange ==
    LastCall("PhysicalRegister", "register") =>
        LET r == chain.last.val
        IN  IF 1 <= r /\ r <= 8
            THEN chain.last.res = "Ok" /\ Unwrap(builder).register = Some(r - 1)
            ELSE chain.last.res = "InvalidAddress" /\ Unwrap(builder).register = None

\* bit n of the XOR of three bytes
XorBit3(a, b, c, n) ==
    (BoolAsU8(ByteBit(a, n)) + BoolAsU8(ByteBit(b, n)) + BoolAsU8(ByteBit(c, n))) % 2

\* an Instruction packet was built and serialised
SerialisedInstruction == Serialised /\ Unwrap(packet).kind = "Instruction"

\* C23: Instruction::serialise emits four bytes: byte 0 = 0111 CC AA (CC = 11
\* WriteCvByte, 01 VerifyCvByte, 10 for the bit operations; AA = the top two bits
\* of the stored address), byte 1 = the low eight address bits, byte 2 = the data
\* value, or 111 K D BBB for the bit operations (K = 1 write, 0 verify; D the bit;
\* BBB the offset), byte 3 = the XOR of bytes 0..2; CV 48 write_byte(0xaa) gives
\* 0x7c 0x2f 0xaa and CV 298 verify_bit(5, true) gives 0x79 0x29 0xed.
C23_InstructionBytes ==
    SerialisedInstruction =>
        LET pkt == Unwrap(packet)
            typ == pkt.typ
            CC == CASE typ.t = "WriteCvByte" -> 3
                    [] typ.t = "VerifyCvByte" -> 1
                    [] typ.t \in {"WriteCvBit", "VerifyCvBit"} -> 2
            K == IF typ.t = "WriteCvBit" THEN 1 ELSE 0
        IN  /\ Len(frame) = 4
            /\ frame[1] = 112 + 4 * CC + (pkt.cv_address \div 256)
            /\ frame[2] = pkt.cv_address % 256
            /\ frame[3] = IF typ.t \in {"WriteCvByte", "VerifyCvByte"}
                          THEN typ.value
                          ELSE 224 + 16 * K + 8 * BoolAsU8(typ.bit) + typ.offset
            /\ \A n \in 0 .. 7 :
                   BoolAsU8(ByteBit(frame[4], n))
                       = XorBit3(frame[1], frame[2], frame[3], n)
            /\ (pkt.cv_address = 47 /\ typ = WriteCvByte(170)) =>
                   (frame[1] = 124 /\ frame[2] = 47 /\ frame[3] = 170)
            /\ (pkt.cv_address = 297 /\ typ = VerifyCvBit(5, TRUE)) =>
                   (frame[1] = 121 /\ frame[2] = 41 /\ frame[3] = 237)

\* CV 298 verify_bit(5, true) was serialised
C23_Witness ==
    /\ SerialisedInstruction
    /\ Unwrap(packet).cv_address = 297
    /\ Unwrap(packet).typ = VerifyCvBit(5, TRUE)
    /\ Len(frame) = 4

(***************************************************************************)
(* The transmission engine: claims C24 .. C27, C29, C30 (under Spec).      *)
(***************************************************************************)
\* the step is the transfer of the staged packet into the active buffer
Transfer == txCount' = txCount + 1

\* C24: the active buffer and buffer_num_bits change in one step only: the tick
\* taken in Idle{true} with a non-zero staged length, which copies the staging
\* buffer and its length, clears the staged length and goes to Transmitting{0,
\* false}.  No write and no other tick changes them; a step taken while a packet
\* is in flight leaves its bits and length alone, and the next packet is loaded
\* only once the one in flight is out.
C24_ActiveBufferFrame ==
    [][ /\ (buffer' # buffer \/ buffer_num_bits' # buffer_num_bits) =>
               /\ tick(TRUE)
               /\ state = Idle(TRUE)
               /\ write_buffer_len # 0
        /\ (tick(TRUE) /\ state = Idle(TRUE) /\ write_buffer_len # 0) =>
               /\ buffer' = write_buffer
               /\ buffer_num_bits' = write_buffer_len
               /\ write_buffer_len' = 0
               /\ state' = Transmitting(0, FALSE)
               /\ Loaded => Complete
        /\ state.tag = "Transmitting" =>
               /\ UNCHANGED <<buffer, buffer_num_bits>>
               /\ Bits(buffer', buffer_num_bits') = TxPkt
      ]_vars

\* a different packet was written while one was in flight, which is intact
C24_Witness ==
    /\ ret.op = "write" /\ ret.res = "Ok" /\ ret.val >= 2
    /\ state.tag = "Transmitting"
    /\ state.offset >= 1
    /\ lastWritten # TxPkt
    /\ Bits(buffer, buffer_num_bits) = TxPkt

\* C25: the engine starts in Idle{false} with nothing staged; a tick in
\* Idle{false} drives the pin low and goes to Idle{true}, staged packet or not; a
\* tick in Idle{true} drives the pin high and goes to Transmitting{0, false} if a
\* packet is staged and to Idle{false} otherwise; Transmitting is entered only
\* with a packet of at least one bit that a write has staged.
C25_IdleTransitions ==
    /\ state = Idle(FALSE) /\ write_buffer_len = 0
    /\ [][ /\ (tick(TRUE) /\ state = Idle(FALSE)) =>
                  /\ pin' = "low"
                  /\ state' = Idle(TRUE)
           /\ (tick(TRUE) /\ state = Idle(TRUE)) =>
                  /\ pin' = "high"
                  /\ state' = IF write_buffer_len # 0
                              THEN Transmitting(0, FALSE)
                              ELSE Idle(FALSE)
           /\ state'.tag = "Transmitting" =>
                  /\ txPkt' # {}
                  /\ \A q \in txPkt' : Len(q) >= 1
         ]_vars

\* with a packet staged, the tick of Idle{false} has gone to Idle{true}
C25_Witness ==
    /\ state = Idle(TRUE)
    /\ pin = "low"
    /\ ret = Ok("tick", IdleClock)
    /\ write_buffer_len # 0

\* C26: a tick in Transmitting{offset, false} drives the pin low, returns the
\* delay of the bit at offset and goes to Transmitting{offset, true}; a tick in
\* Transmitting{offset, true} drives the pin high, returns the delay of the same
\* bit, and goes to Idle{false} if offset + 1 = buffer_num_bits and to
\* Transmitting{offset + 1, false} otherwise; the two halves of a bit have the
\* same duration and a packet of n bits takes 2n ticks.
C26_TransmittingTransitions ==
    [][ (tick(TRUE) /\ state.tag = "Transmitting") =>
            LET o == state.offset
                delay == IF TxPkt[o + 1] THEN 58 ELSE 100
            IN  /\ ret' = Ok("tick", delay)
                /\ ~state.second_half_of_bit =>
                       /\ pin' = "low"
                       /\ state' = Transmitting(o, TRUE)
                /\ state.second_half_of_bit =>
                       /\ pin' = "high"
                       /\ state' = IF o + 1 = buffer_num_bits
                                   THEN Idle(FALSE)
                                   ELSE Transmitting(o + 1, FALSE)
                       /\ sent'[Len(sent')][2] = sent'[Len(sent') - 1][2]
                /\ state'.tag = "Idle" => Len(sent') = 2 * buffer_num_bits
      ]_vars

\* the second half of a one-bit that is not the last bit of its packet
C26_Witness ==
    /\ state.tag = "Transmitting"
    /\ state.offset >= 1
    /\ ~state.second_half_of_bit
    /\ ret = Ok("tick", ONE_MICROS)
    /\ pin = "high"

\* C27: in every reachable state the staged length is at most 192, and in
\* Transmitting{offset, ..}: 1 <= buffer_num_bits <= 192 and 0 <= offset <
\* buffer_num_bits; so the lookup of the bit at offset never fails, and a tick can
\* always be taken.
C27_OffsetInRange ==
    /\ write_buffer_len <= 192
    /\ state.tag = "Transmitting" =>
           /\ 1 <= buffer_num_bits /\ buffer_num_bits <= 192
           /\ 0 <= state.offset /\ state.offset < buffer_num_bits
    /\ ret.res # "Panic"
    /\ ENABLED Tick

\* the second half of the last bit of a packet of 192 bits
C27_Witness ==
    /\ state = Transmitting(191, TRUE)
    /\ buffer_num_bits = 192
    /\ write_buffer_len = 192

\* C29: packets are never sent back to back: the tick after the last half-bit of
\* a packet is the first half of an idle bit (pin low), a packet is loaded only
\* by the tick that ends an idle bit (pin high after low), never by a step taken
\* while transmitting, also when it was staged before the packet in flight was
\* out; so at least two Idle ticks lie between two packets.
C29_IdleBitBetweenPackets ==
    [][ /\ Transfer =>
               /\ state = Idle(TRUE)
               /\ pin = "low" /\ pin' = "high"
               /\ ret' = Ok("tick", IdleClock)
        /\ (state' = Idle(TRUE) /\ state # Idle(TRUE)) =>
               /\ state = Idle(FALSE)
               /\ pin' = "low"
               /\ ret' = Ok("tick", IdleClock)
        /\ (state.tag = "Transmitting" /\ state'.tag = "Transmitting") =>
               /\ ~Transfer
               /\ UNCHANGED txPkt
               /\ state'.offset >= state.offset
        /\ (state.tag = "Transmitting" /\ state'.tag = "Idle") =>
               state' = Idle(FALSE)
      ]_vars

\* the last half-bit of a packet has just gone out and the next packet is staged
\* already
C29_Witness ==
    /\ Complete
    /\ state = Idle(FALSE)
    /\ pin = "high"
    /\ ret.op = "tick"
    /\ write_buffer_len # 0
    /\ txCount = 0

\* C30: write() of an empty bit sequence returns Ok and sets the staged length to
\* 0, leaving the active buffer, its length, the state and the pin alone; with a
\* staged length of 0 no tick loads anything, so a packet that was staged and not
\* yet loaded is never sent and the engine does not enter Transmitting for the
\* empty write.
C30_EmptyWrite ==
    [][ /\ (ret'.op = "write" /\ ret'.val = 0) =>
               /\ ret'.res = "Ok"
               /\ write_buffer_len' = 0
               /\ UNCHANGED <<buffer, buffer_num_bits, state, pin>>
        /\ (ret'.op = "tick" /\ write_buffer_len = 0) =>
               /\ ~Transfer
               /\ UNCHANGED <<buffer, buffer_num_bits>>
               /\ state.tag = "Idle" => state'.tag = "Idle"
        /\ Transfer =>
               /\ lastWritten # <<>>
               /\ Bits(buffer', buffer_num_bits') = lastWritten
      ]_vars

\* an empty write replaced a staged packet, and the idle bit that would have
\* loaded it has passed: nothing was ever loaded
C30_Witness ==
    /\ lastWritten = <<>>
    /\ replaced = "diff"
    /\ ~Loaded
    /\ state = Idle(FALSE)
    /\ pin = "high"
    /\ ret = Ok("tick", IdleClock)


(***************************************************************************)
(* The engine with the wait of a staged packet observed: the caller makes  *)
(* at most MaxWrites calls of write(), the timer interrupt keeps calling   *)
(* tick().                                                                 *)
(***************************************************************************)
MaxWrites == 3

\* longer than any wait the engine can impose
MaxWait == 2 * BUFFER_SIZE + 3

\* the arguments tried for write(): short packets, the empty one, one too long
LiveInputs == {NthBitSeq(n) : n \in 0 .. MaxSeq} \cup {OverPkt}

LiveInit == new /\ NoHistory /\ NoTest /\ NoHost /\ NoCodec /\ NoLive

\* a call of write(); a successful one starts the count of the ticks anew and notes
\* the length of the packet in flight (0 when Idle)
LiveWrite ==
    /\ live.writes < MaxWrites
    /\ \E buf \in LiveInputs :
        /\ write(buf)
        /\ live' = IF TooLong(buf)
                   THEN live
                   ELSE [writes |-> live.writes + 1,
                         ticks |-> 0,
                         flight |-> IF state.tag = "Transmitting"
                                    THEN buffer_num_bits ELSE 0]
    /\ UNCHANGED <<test, host, codec>>

\* a call of tick(); a successful one counts while a packet is staged, the transfer
\* tick included
LiveTickOf(pinOk) ==
    /\ tick(pinOk)
    /\ live' = IF pinOk /\ write_buffer_len # 0 /\ live.ticks < MaxWait
               THEN [live EXCEPT !.ticks = @ + 1]
               ELSE live
    /\ UNCHANGED <<test, host, codec>>

LiveTick == \E pinOk \in BOOLEAN : LiveTickOf(pinOk)

LiveNext == LiveWrite \/ LiveTick

\* the timer interrupt keeps firing, and the pin keeps accepting the level
SpecLive == LiveInit /\ [][LiveNext]_vars /\ WF_vars(LiveTickOf(TRUE))

\* the k-th successful write staged a packet of at least one bit, not yet loaded
Staged(k) == live.writes = k /\ write_buffer_len # 0 /\ txCount = 0

\* the engine transmits exactly the packet of the k-th successful write
Entered(k) ==
    /\ live.writes = k
    /\ txCount = 1
    /\ state.tag = "Transmitting"
    /\ Len(lastWritten) >= 1
    /\ Bits(buffer, buffer_num_bits) = lastWritten

\* the packet of the k-th successful write has been sent whole, the engine is idle
Finished(k) ==
    /\ live.writes = k
    /\ txCount = 1
    /\ state.tag = "Idle"
    /\ Complete
    /\ TxPkt = lastWritten

\* C28: a successful write of at least one bit that no later write follows leads,
\* as long as ticks keep coming and the pin accepts them, to the engine
\* transmitting exactly that packet and then to Idle with all of it sent; the
\* transfer happens at most 2 * m + 2 successful ticks after the write, m being the
\* length of the packet in flight when write() was called (0 when Idle).
C28_StagedPacketLiveness ==
    /\ [](live.ticks <= 2 * live.flight + 2)
    /\ \A k \in 1 .. MaxWrites :
        Staged(k) ~> (live.writes > k \/ Entered(k))
    /\ \A k \in 1 .. MaxWrites :
        Entered(k) ~> (live.writes > k \/ Finished(k))

\* a packet written as a two-bit packet had just been loaded has waited the
\* 2 * 2 + 2 ticks, was loaded and sent whole
C28_Witness ==
    /\ live.flight = 2
    /\ live.ticks = 2 * live.flight + 2
    /\ Finished(live.writes)


\* the step is a SpeedAndDirection packet's serialise(&mut buf)
SerialisesSpeedAndDirection ==
    /\ packet # None
    /\ Unwrap(packet).kind = "SpeedAndDirection"
    /\ ser_ret = NoCall
    /\ ser_ret' # NoCall

\* C31: SpeedAndDirection::serialise writes the same 43 bits and returns the same
\* length, 43, as the frame assembler of packets/mod.rs applied to the three bytes
\* [address, instruction, ecc] and the same buffer: one-bits at 0 .. 14, a 0 start
\* bit at 15, 24 and 33, the bytes most significant bit first at 16 .. 23, 25 .. 32
\* and 34 .. 41, and a 1 stop bit at 42.
C31_HandWrittenAgreesWithAssembler ==
    [][SerialisesSpeedAndDirection =>
        LET pkt == Unwrap(packet)
            data == <<pkt.address, pkt.instruction, pkt.ecc>>
            generic == serialise(data, ser_buf)
        IN  /\ generic.res = "Ok" /\ generic.val = 43
            /\ ser_ret'.res = "Ok" /\ ser_ret'.val = 43
            /\ \A i \in 0 .. (SerialiseBufferBits - 1) :
                   Get(ser_buf', i) = Get(generic.buf, i)
            /\ \A i \in 0 .. 14 : Get(ser_buf', i)
            /\ \A j \in 0 .. 2 :
                   /\ ~Get(ser_buf', 15 + 9 * j)
                   /\ \A n \in 0 .. 7 :
                          Get(ser_buf', 16 + 9 * j + n) = ByteBit(data[j + 1], 7 - n)
            /\ Get(ser_buf', 42)
      ]_vars

\* the packet of test::serialise_speed_and_direction (address 35, speed 14, Forward)
\* was serialised into a buffer that had every bit set
C31_Witness ==
    /\ packet # None
    /\ ser_ret = [fn |-> "SpeedAndDirection", res |-> "Ok", val |-> 43]
    /\ frame = <<35, 120, 91>>
    /\ \A i \in 43 .. 47 : i \in ser_buf

=============================================================================
